---- MODULE Spec2Model ----
(***************************************************************************)
(* Model of the leachuuid7 crate (src/src/lib.rs): the Uuid7 value type,    *)
(* its generation from a clock reading and a random source, its canonical  *)
(* string formatting, its parsing, its accessors and its ordering.         *)
(*                                                                         *)
(* Bytes are naturals below 256.  Integers wider than a byte (the u128     *)
(* millisecond count, its u64 truncation, the u128 of as_u128) are         *)
(* big-endian sequences of 16-bit limbs, so that every shift, mask and     *)
(* truncation keeps the width it has in the code.  A string is a sequence  *)
(* of characters; a character is a one-character string, except "U+00E9"   *)
(* which stands for a character whose UTF-8 encoding takes two bytes.      *)
(***************************************************************************)
EXTENDS Naturals, Integers, Sequences, FiniteSets, TLC

(***************************************************************************)
(* Bounds of the model.                                                    *)
(***************************************************************************)
\* how many clock readings of ClockTable the generator is run at
NumClock == 6
\* how many sample values the random source supplies for bytes 6 and 8
NumSamples == 3
\* how many fill patterns the random source supplies for bytes 7 and 9..15
NumTails == 1
\* how many constant fills the random source supplies in the ordering runs
NumOrderFills == 2
\* how many characters a splice removes from a string at most
MaxRemove == 2
\* how many characters a splice inserts into a string at most
MaxInsert == 1
\* how many generated values the parsing runs start from
NumSeeds == 2

(***************************************************************************)
(* Bit operations on naturals and on limb sequences.                       *)
(***************************************************************************)
RECURSIVE BitAnd(_, _)
BitAnd(a, b) ==
    IF a = 0 \/ b = 0 THEN 0
    ELSE (a % 2) * (b % 2) + 2 * BitAnd(a \div 2, b \div 2)

RECURSIVE BitOr(_, _)
BitOr(a, b) ==
    IF a = 0 THEN b
    ELSE IF b = 0 THEN a
    ELSE (IF a % 2 = 1 \/ b % 2 = 1 THEN 1 ELSE 0) + 2 * BitOr(a \div 2, b \div 2)

LimbBits == 16
LimbMod == 2 ^ LimbBits

\* w >> k on a limb sequence, keeping the width of w
Shr(w, k) ==
    LET q == k \div LimbBits
        off == k % LimbBits
        n == Len(w)
    IN  [j \in 1..n |->
            (IF j - q >= 1 THEN w[j - q] \div (2 ^ off) ELSE 0)
            + (IF j - q - 1 >= 1 THEN (w[j - q - 1] % (2 ^ off)) * (2 ^ (LimbBits - off))
               ELSE 0)]

\* w << k on a limb sequence, keeping the width of w (high bits fall off)
Shl(w, k) ==
    LET q == k \div LimbBits
        off == k % LimbBits
        n == Len(w)
    IN  [j \in 1..n |->
            (IF j + q <= n THEN (w[j + q] * (2 ^ off)) % LimbMod ELSE 0)
            + (IF j + q + 1 <= n THEN w[j + q + 1] \div (2 ^ (LimbBits - off)) ELSE 0)]

\* w1 | w2 on limb sequences of the same width
WideOr(w1, w2) == [j \in 1..Len(w1) |-> BitOr(w1[j], w2[j])]

\* `as u8` of a wide integer
AsU8(w) == w[Len(w)] % 256

\* `as u64` of the u128 returned by as_millis
AsU64(w) == SubSeq(w, Len(w) - 3, Len(w))

\* `byte as u128`
AsU128(b) == [j \in 1..8 |-> IF j = 8 THEN b ELSE 0]

(***************************************************************************)
(* The inputs of generation: clock readings (u128 milliseconds, as limbs)  *)
(* and the bytes the random source writes into bytes[6..].                 *)
(***************************************************************************)
ClockTable ==
    << <<0, 0, 0, 0, 0, 388, 57760, 32298>>,       \* 0x0184e1a07e2a
       <<0, 0, 0, 0, 0, 388, 57761, 0>>,           \* 0x0184e1a10000
       <<0, 0, 0, 0, 0, 65535, 65535, 65535>>,     \* 2^48 - 1
       <<0, 0, 0, 0, 1, 0, 0, 0>>,                 \* 2^48
       <<0, 0, 0, 1, 0, 388, 57760, 32298>>,       \* 2^64 + 0x0184e1a07e2a
       <<0, 0, 0, 0, 0, 0, 0, 0>>,                 \* 0
       <<0, 0, 0, 0, 0, 388, 57760, 32299>>,       \* 0x0184e1a07e2b
       <<0, 0, 0, 0, 4096, 0, 0, 255>> >>          \* 2^60 + 255

ClockReadings ==
    {ClockTable[k] : k \in {j \in 1..Len(ClockTable) : j <= NumClock}}

SampleTable == <<255, 0, 165, 75, 90, 60>>
Sample(k) == SampleTable[(k % Len(SampleTable)) + 1]
FillByte(t, i) == (t * 85 + i * 17 + 3) % 256

RandomFills ==
    {[i \in 1..10 |-> IF i = 1 THEN Sample(a)
                      ELSE IF i = 3 THEN Sample(b)
                      ELSE FillByte(t, i + 5)] :
        a \in 0..(NumSamples - 1), b \in 0..(NumSamples - 1), t \in 0..(NumTails - 1)}

\* the random source writing the same byte everywhere
OrderFills == {[i \in 1..10 |-> Sample(k)] : k \in 0..(NumOrderFills - 1)}

(***************************************************************************)
(* Uuid7::new_with_rng.  A Uuid7 is its 16 bytes, bytes[i] at index i + 1. *)
(***************************************************************************)
\* rng.fill_bytes(&mut bytes[6..])
fill_bytes(bytes, r) == SubSeq(bytes, 1, 6) \o r

\* the version set without clearing the random high nibble first
SetVersionNoMask(b) == BitOr(b, 112)

\* bytes[6] = (bytes[6] & 0x0F) | 0x70
SetVersion(b) == BitOr(BitAnd(b, 15), 112)

\* the variant set with only the top bit overwritten
SetVariantOneBit(b) == BitOr(BitAnd(b, 127), 128)

\* bytes[8] = (bytes[8] & 0x3F) | 0x80
SetVariant(b) == BitOr(BitAnd(b, 63), 128)

\* the timestamp stored least significant byte first
TimestampBytesLittle(millis) ==
    << AsU8(millis), AsU8(Shr(millis, 8)), AsU8(Shr(millis, 16)),
       AsU8(Shr(millis, 24)), AsU8(Shr(millis, 32)), AsU8(Shr(millis, 40)) >>

\* bytes[0..5] from millis, most significant byte first
TimestampBytes(millis) ==
    << AsU8(Shr(millis, 40)), AsU8(Shr(millis, 32)), AsU8(Shr(millis, 24)),
       AsU8(Shr(millis, 16)), AsU8(Shr(millis, 8)), AsU8(millis) >>

new_with_rng(now, r) ==
    LET millis == AsU64(now)
        stamped == TimestampBytes(millis) \o [i \in 1..10 |-> 0]
        filled == fill_bytes(stamped, r)
        versioned == [filled EXCEPT ![7] = SetVersion(filled[7])]
    IN  [versioned EXCEPT ![9] = SetVariant(versioned[9])]

\* as_bytes
as_bytes(u) == u

\* as_u128: value |= (byte as u128) << (120 - i * 8), for i = 0..15
ShiftOfLittle(i) == i * 8

ShiftOf(i) == 120 - (i * 8)

RECURSIVE as_u128_from(_, _, _)
as_u128_from(u, i, value) ==
    IF i > 15 THEN value
    ELSE as_u128_from(u, i + 1, WideOr(value, Shl(AsU128(u[i + 1]), ShiftOf(i))))

as_u128(u) == as_u128_from(u, 0, [j \in 1..8 |-> 0])

\* derived Ord: lexicographic comparison of the byte arrays
RECURSIVE LessFrom(_, _, _)
LessFrom(a, b, i) ==
    IF i > Len(a) THEN FALSE
    ELSE IF a[i] < b[i] THEN TRUE
    ELSE IF a[i] > b[i] THEN FALSE
    ELSE LessFrom(a, b, i + 1)

Less(a, b) == LessFrom(a, b, 1)

(***************************************************************************)
(* Display for Uuid7.                                                      *)
(***************************************************************************)
HexDigits == <<"0", "1", "2", "3", "4", "5", "6", "7",
               "8", "9", "a", "b", "c", "d", "e", "f">>

\* the two digits of a byte in the wrong order
HexByteSwapped(b) == <<HexDigits[(b % 16) + 1], HexDigits[(b \div 16) + 1]>>

\* {:02x}
HexByte(b) == <<HexDigits[(b \div 16) + 1], HexDigits[(b % 16) + 1]>>

RECURSIVE HexOf(_, _, _)
HexOf(u, from, to) ==
    IF from > to THEN <<>> ELSE HexByte(u[from + 1]) \o HexOf(u, from + 1, to)

fmt(u) ==
    HexOf(u, 0, 3) \o <<"-">> \o HexOf(u, 4, 5) \o <<"-">> \o HexOf(u, 6, 7)
    \o <<"-">> \o HexOf(u, 8, 9) \o <<"-">> \o HexOf(u, 10, 15)

(***************************************************************************)
(* ParseUuid7Error and the result of from_str.  A result is Ok with the    *)
(* bytes of the value, Err with the message of the ParseUuid7Error, or     *)
(* Panic when the call unwinds instead of returning.                       *)
(***************************************************************************)
NoResult == [kind |-> "None", err |-> "", got |-> <<>>, pos |-> 0, bytes |-> <<>>]
Ok(b) == [kind |-> "Ok", err |-> "", got |-> <<>>, pos |-> 0, bytes |-> b]
ParseUuid7Error(msg, g, p) ==
    [kind |-> "Err", err |-> msg, got |-> g, pos |-> p, bytes |-> <<>>]
Panic == [kind |-> "Panic", err |-> "", got |-> <<>>, pos |-> 0, bytes |-> <<>>]

ErrLength == "Invalid UUID length; expected 36 characters"
ErrFormat == "Invalid UUID format; expected dashes at positions 8, 13, 18, and 23"
ErrVersion == "Invalid version: expected 7, got"
ErrVariant == "Invalid variant: expected one of 8, 9, a, b, got"
ErrHex == "Invalid hex at position"

(***************************************************************************)
(* Strings: characters, their UTF-8 width, and the bytes of a string.      *)
(***************************************************************************)
UpperHex == <<"A", "B", "C", "D", "E", "F">>

\* number of UTF-8 bytes of a character
len_utf8(c) == IF c = "U+00E9" THEN 2 ELSE 1

\* the bytes of a string: one cell per byte, part 1 is the first byte of a character
RECURSIVE Utf8(_)
Utf8(str) ==
    IF str = <<>> THEN <<>>
    ELSE [p \in 1..len_utf8(Head(str)) |-> [ch |-> Head(str), part |-> p]]
         \o Utf8(Tail(str))

\* s.len(): the length in bytes
StrLen(str) == Len(Utf8(str))

\* s.chars().nth(k), "" for None
Nth(str, k) == IF k < Len(str) THEN str[k + 1] ELSE ""

\* Option::unwrap_or('?')
UnwrapOr(c, d) == IF c = "" THEN d ELSE c

\* str::is_char_boundary on the bytes of a string
is_char_boundary(cells, k) ==
    \/ k = 0
    \/ k = Len(cells)
    \/ k < Len(cells) /\ cells[k + 1].part = 1

\* char::to_digit(16), -1 for None
to_digit(c) ==
    IF \E d \in 1..16 : HexDigits[d] = c
    THEN (CHOOSE d \in 1..16 : HexDigits[d] = c) - 1
    ELSE IF \E d \in 1..6 : UpperHex[d] = c
    THEN (CHOOSE d \in 1..6 : UpperHex[d] = c) + 9
    ELSE -1

\* u8::from_str_radix(src, 16) on the bytes of a slice, -1 for Err
RECURSIVE Digits(_, _)
Digits(cells, acc) ==
    IF cells = <<>> THEN acc
    ELSE LET d == IF len_utf8(Head(cells).ch) = 1 THEN to_digit(Head(cells).ch) ELSE -1
         IN  IF d < 0 THEN -1
             ELSE IF acc * 16 + d > 255 THEN -1
             ELSE Digits(Tail(cells), acc * 16 + d)

from_str_radix(cells) ==
    IF cells = <<>> THEN -1
    ELSE IF Len(cells) = 1 /\ Head(cells).ch \in {"+", "-"} THEN -1
    ELSE IF Head(cells).ch = "+" THEN Digits(Tail(cells), 0)
    ELSE Digits(cells, 0)

\* the characters of a slice of bytes, for the error message
CharsOf(cells) ==
    LET firsts == SelectSeq(cells, LAMBDA x : x.part = 1)
    IN  [k \in 1..Len(firsts) |-> firsts[k].ch]

\* the variant check letting the digit c through
IsVariantCharLoose(c) == c \in {"8", "9", "a", "b", "c", "A", "B"}

\* matches!(variant_char, '8' | '9' | 'a' | 'b' | 'A' | 'B')
IsVariantChar(c) == c \in {"8", "9", "a", "b", "A", "B"}

\* the loop `for i in 0..16` of from_str over hex, from iteration i on
RECURSIVE DecodeFrom(_, _, _)
DecodeFrom(hex, i, bytes) ==
    IF i > 15 THEN Ok(bytes)
    ELSE IF \/ i * 2 + 2 > Len(hex)
            \/ ~is_char_boundary(hex, i * 2)
            \/ ~is_char_boundary(hex, i * 2 + 2)
         THEN Panic
    ELSE LET byte_str == SubSeq(hex, i * 2 + 1, i * 2 + 2)
             b == from_str_radix(byte_str)
         IN  IF b < 0 THEN ParseUuid7Error(ErrHex, CharsOf(byte_str), i)
             ELSE DecodeFrom(hex, i + 1, Append(bytes, b))

from_str(str) ==
    IF StrLen(str) # 36 THEN ParseUuid7Error(ErrLength, <<>>, 0)
    ELSE IF \/ Nth(str, 8) # "-" \/ Nth(str, 13) # "-"
            \/ Nth(str, 18) # "-" \/ Nth(str, 23) # "-"
         THEN ParseUuid7Error(ErrFormat, <<>>, 0)
    ELSE IF Nth(str, 14) # "7"
         THEN ParseUuid7Error(ErrVersion, <<UnwrapOr(Nth(str, 14), "?")>>, 0)
    ELSE IF ~IsVariantChar(UnwrapOr(Nth(str, 19), "?"))
         THEN ParseUuid7Error(ErrVariant, <<UnwrapOr(Nth(str, 19), "?")>>, 0)
    ELSE DecodeFrom(Utf8(SelectSeq(str, LAMBDA c : c # "-")), 0, <<>>)

(***************************************************************************)
(* State.                                                                  *)
(*   calls : the last call of new_with_rng (<<>> before it), with the      *)
(*           clock reading, the random bytes and the value returned        *)
(*   older : a call the caller kept to compare its value with a later one  *)
(*   val   : the Uuid7 the caller holds (<<>> before the first one)        *)
(*   s     : the string the caller holds                                   *)
(*   src   : the value s was formatted from, <<>> once s is anything else  *)
(*   edited: whether the caller has spliced a string                       *)
(*   res   : what from_str returned for s, NoResult before the call        *)
(*   word  : the last as_u128 call, the value it was applied to and the    *)
(*           u128 it returned (<<>> before the call)                       *)
(***************************************************************************)
VARIABLES calls, older, val, s, src, edited, res, word

vars == <<calls, older, val, s, src, edited, res, word>>

\* characters a caller puts into a string besides what to_string produced
EditChars == {"-", "+", "g", "U+00E9", "c", "B"}

Init ==
    /\ calls = <<>>
    /\ older = <<>>
    /\ val = <<>>
    /\ s = <<>>
    /\ src = <<>>
    /\ edited = FALSE
    /\ res = NoResult
    /\ word = <<>>

\* Uuid7::new / Uuid7::new_with_rng at clock reading now, the source supplying r;
\* the caller goes on with the new value and lets go of the string, the result
\* and the u128 it had from the value before
New(now, r) ==
    LET c == [now |-> now, r |-> r, uuid |-> new_with_rng(now, r)]
    IN  /\ calls' = <<c>>
        /\ val' = c.uuid
        /\ s' = <<>>
        /\ src' = <<>>
        /\ res' = NoResult
        /\ word' = <<>>
        /\ UNCHANGED <<older, edited>>

\* the caller keeps the value it generated last, to compare it with the next one
Keep ==
    /\ calls # <<>>
    /\ older' = calls
    /\ UNCHANGED <<calls, val, s, src, edited, res, word>>

\* val.to_string()
Format ==
    /\ val # <<>>
    /\ s' = fmt(val)
    /\ src' = val
    /\ res' = NoResult
    /\ UNCHANGED <<calls, older, val, edited, word>>

\* Uuid7::from_str(&s); the caller keeps the value of an Ok
Parse ==
    /\ res' = from_str(s)
    /\ val' = IF res'.kind = "Ok" THEN res'.bytes ELSE val
    /\ UNCHANGED <<calls, older, s, src, edited, word>>

\* val.as_u128()
CallAsU128 ==
    /\ val # <<>>
    /\ word' = <<[of |-> val, value |-> as_u128(val)]>>
    /\ UNCHANGED <<calls, older, val, s, src, edited, res>>

\* the caller replaces n characters of s after the first i by ins
Splice(i, n, ins) ==
    /\ ~edited
    /\ i + n <= Len(s)
    /\ n + Len(ins) > 0
    /\ s' = SubSeq(s, 1, i) \o ins \o SubSeq(s, i + n + 1, Len(s))
    /\ src' = <<>>
    /\ edited' = TRUE
    /\ res' = NoResult
    /\ UNCHANGED <<calls, older, val, word>>

Generate == \E now \in ClockReadings, r \in RandomFills : New(now, r)

\* the strings a splice inserts
Insertions == UNION {[1..k -> EditChars] : k \in 0..MaxInsert}

Edit ==
    \E i \in 0..Len(s), n \in 0..MaxRemove, ins \in Insertions : Splice(i, n, ins)

Next == Generate \/ Format \/ Parse \/ CallAsU128

Spec == Init /\ [][Next]_vars

(***************************************************************************)
(* Ordering runs: two values generated one after the other and compared.   *)
(***************************************************************************)
GenerateOrder == \E now \in ClockReadings, r \in OrderFills : New(now, r)

NextOrder == GenerateOrder \/ Keep

OrderSpec == Init /\ [][NextOrder]_vars

(***************************************************************************)
(* Parsing runs: from_str applied to the canonical string of a generated   *)
(* value and to what a caller makes of it by splicing.                     *)
(***************************************************************************)
Seeds ==
    {[now |-> ClockTable[k],
      r |-> [i \in 1..10 |-> IF i \in {1, 3} THEN Sample(k - 1)
                             ELSE FillByte(k - 1, i + 5)]] :
        k \in {j \in 1..Len(ClockTable) : j <= NumSeeds}}

InitParse ==
    \E seed \in Seeds :
        LET c == [now |-> seed.now, r |-> seed.r, uuid |-> new_with_rng(seed.now, seed.r)]
        IN  /\ calls = <<c>>
            /\ older = <<>>
            /\ val = c.uuid
            /\ s = fmt(c.uuid)
            /\ src = c.uuid
            /\ edited = FALSE
            /\ res = NoResult
            /\ word = <<>>

NextParse == Edit \/ Parse \/ Format \/ CallAsU128

ParseSpec == InitParse /\ [][NextParse]_vars

(***************************************************************************)
(* Properties.                                                             *)
(***************************************************************************)
DashIndices == {8, 13, 18, 23}
LowerHexChars == {"0", "1", "2", "3", "4", "5", "6", "7", "8", "9",
                  "a", "b", "c", "d", "e", "f"}
HexChars == LowerHexChars \cup {"A", "B", "C", "D", "E", "F"}

\* the version field of a value: the high nibble of byte 6
VersionOf(u) == u[7] \div 16
\* the two most significant bits of the variant field: the top bits of byte 8
VariantOf(u) == u[9] \div 64

\* s is the canonical string of the value generated last
FormattedFromGenerated == src # <<>> /\ calls # <<>> /\ src = calls[1].uuid

\* C1: parsing the canonical string of a generated value succeeds and returns
\* a value equal to the generated one.
RoundTrip ==
    (res.kind # "None" /\ FormattedFromGenerated) => res = Ok(calls[1].uuid)

RoundTripWitness ==
    /\ FormattedFromGenerated
    /\ res.kind = "Ok"
    /\ calls[1].r[1] = 255
    /\ calls[1].now = ClockTable[4]

\* C2: the canonical string of a generated value has 36 characters, '-' at
\* indices 8, 13, 18, 23, '7' at index 14, one of 8, 9, a, b at index 19 and a
\* lowercase hexadecimal digit everywhere else.
CanonicalShape ==
    FormattedFromGenerated =>
        /\ Len(s) = 36
        /\ \A i \in 0..35 :
              IF i \in DashIndices THEN s[i + 1] = "-"
              ELSE IF i = 14 THEN s[i + 1] = "7"
              ELSE IF i = 19 THEN s[i + 1] \in {"8", "9", "a", "b"}
              ELSE s[i + 1] \in LowerHexChars

CanonicalShapeWitness ==
    /\ FormattedFromGenerated
    /\ calls[1].r[1] = 255
    /\ calls[1].r[3] = 255
    /\ s[15] = "7"
    /\ s[20] = "b"

\* every Uuid7 the caller has obtained, by generation or from an Ok of from_str
Obtained ==
    {c.uuid : c \in {calls[k] : k \in 1..Len(calls)} \cup {older[k] : k \in 1..Len(older)}}
    \cup (IF val # <<>> THEN {val} ELSE {})
    \cup (IF res.kind = "Ok" THEN {res.bytes} ELSE {})

\* C3: every value obtained by generation or by a successful from_str has
\* version 7 and the top two variant bits equal to binary 10.
VersionAndVariant ==
    \A u \in Obtained : Len(u) = 16 /\ VersionOf(u) = 7 /\ VariantOf(u) = 2

VersionAndVariantWitness ==
    /\ edited
    /\ res.kind = "Ok"
    /\ res.bytes # calls[1].uuid
    /\ val = res.bytes

\* C4: from_str returns Ok or Err for every input, it never panics.
NeverPanics == res.kind # "Panic"

\* the input has 36 bytes, '-' at indices 8, 13, 18, 23 and hexadecimal digits
\* at the other 32 indices
WellFormed(str) ==
    /\ StrLen(str) = 36
    /\ Len(str) = 36
    /\ \A i \in 0..35 :
          IF i \in DashIndices THEN str[i + 1] = "-" ELSE str[i + 1] \in HexChars

\* C5: from_str returns Ok only for inputs of 36 characters with '-' at
\* indices 8, 13, 18, 23 and hexadecimal digits at the other 32 indices.
StrictParsing == res.kind = "Ok" => WellFormed(s)

\* C6: the error from_str returns names the first failing check in the order
\* length, dashes and hexadecimal digits, version digit, variant digit.
ErrorOrder ==
    res.kind = "Err" =>
        IF StrLen(s) # 36 THEN res.err = ErrLength
        ELSE IF ~WellFormed(s) THEN res.err = ErrFormat
        ELSE IF s[15] # "7" THEN res.err = ErrVersion
        ELSE s[20] \notin {"8", "9", "a", "b", "A", "B"} /\ res.err = ErrVariant

\* t1 < t2 for clock readings, as numbers
RECURSIVE ClockLessFrom(_, _, _)
ClockLessFrom(t1, t2, j) ==
    IF j > Len(t1) THEN FALSE
    ELSE IF t1[j] # t2[j] THEN t1[j] < t2[j]
    ELSE ClockLessFrom(t1, t2, j + 1)

ClockLess(t1, t2) == ClockLessFrom(t1, t2, 1)

\* t < 2^48
Below2p48(t) == \A j \in 1..(Len(t) - 3) : t[j] = 0

TwoGenerated == older # <<>> /\ calls # <<>>

\* C7 as stated: values generated at clock readings t1 < t2 compare v1 < v2.
Chronological ==
    (TwoGenerated /\ ClockLess(older[1].now, calls[1].now))
        => Less(older[1].uuid, calls[1].uuid)

\* C7, amended: values generated at clock readings t1 < t2 < 2^48 compare
\* v1 < v2, whatever the random bytes of either.
ChronologicalBelowWrap ==
    (TwoGenerated /\ ClockLess(older[1].now, calls[1].now) /\ Below2p48(calls[1].now))
        => Less(older[1].uuid, calls[1].uuid)

ChronologicalWitness ==
    /\ TwoGenerated
    /\ ClockLess(older[1].now, calls[1].now)
    /\ Below2p48(calls[1].now)
    /\ older[1].r[1] = 255
    /\ calls[1].r[1] = 0
    /\ Less(older[1].uuid, calls[1].uuid)

\* C8: the payload is, most significant bit first, the 60-bit millisecond
\* timestamp (bits 127-68), the version 7 (bits 67-64), the variant binary 10
\* (bits 63-62) and 62 random bits.
DocumentedLayout ==
    calls # <<>> =>
        LET value == as_u128(calls[1].uuid)
            now == calls[1].now
        IN  /\ Shr(value, 68) =
                  [j \in 1..8 |-> IF j <= 4 THEN 0
                                  ELSE IF j = 5 THEN now[5] % 4096
                                  ELSE now[j]]
            /\ Shr(value, 64)[8] % 16 = 7
            /\ Shr(value, 62)[8] % 4 = 2

\* C9: byte i of as_bytes() equals (as_u128() >> (120 - 8 * i)) & 0xFF.
AccessorConsistency ==
    word # <<>> =>
        \A i \in 0..15 :
            as_bytes(word[1].of)[i + 1] = Shr(word[1].value, 120 - 8 * i)[8] % 256

AccessorConsistencyWitness ==
    /\ word # <<>>
    /\ word[1].of = val
    /\ word[1].of[1] # word[1].of[16]
    /\ word[1].of[6] # 0

\* C10: bytes 0-5 are the clock reading mod 2^48, most significant byte
\* first; bytes 6-15 are the bytes of the random source, except that the high
\* nibble of byte 6 is 7 and the top two bits of byte 8 are binary 10.
GenerationFrame ==
    calls # <<>> =>
        LET c == calls[1]
            n == Len(c.now)
        IN  /\ Len(c.uuid) = 16
            /\ \A k \in 0..2 :
                  /\ c.uuid[2 * k + 1] = c.now[n - 2 + k] \div 256
                  /\ c.uuid[2 * k + 2] = c.now[n - 2 + k] % 256
            /\ c.uuid[7] = 112 + (c.r[1] % 16)
            /\ c.uuid[9] = 128 + (c.r[3] % 64)
            /\ \A i \in {8} \cup 10..16 : c.uuid[i] = c.r[i - 6]

GenerationFrameWitness ==
    /\ calls # <<>>
    /\ calls[1].now = ClockTable[5]
    /\ calls[1].r[1] = 255
    /\ calls[1].r[3] = 0
    /\ calls[1].uuid[9] = 128

====
